---- MODULE Spec2Model ----
(***************************************************************************)
(* AHMIDIProcessor: MIDI (SysEx / NRPN) to OSC bridge.                     *)
(*                                                                         *)
(* The model follows src/main.py (AHMIDIProcessor.midi_callback and its    *)
(* helpers), src/helpers/hex.py, src/helpers/midi.py (MIDIProcessor),      *)
(* src/helpers/sysex.py, src/helpers/nrpn.py and src/helpers/osc.py.       *)
(*                                                                         *)
(* Python values are modelled as follows.                                  *)
(*   - a hex token such as "0xb0" is the sequence of its characters,       *)
(*     <<"0","x","b","0">>, so that indexing and slicing of the token      *)
(*     (message[0][2], message[1][2:], message_type[:2]) is what the code  *)
(*     computes;                                                           *)
(*   - a call that may raise returns a record with a field exc, "none"     *)
(*     when it returns normally and the exception's class name otherwise;  *)
(*   - a dict is a function on its keys, {} is EmptyDict;                  *)
(*   - the values of an event are tagged: PyStr, PyInt, PyBool, PyNone;    *)
(*   - an OSC address is the sequence of its "/"-separated segments, so    *)
(*     "/qu/console/type" is <<"", "qu", "console", "type">>.              *)
(***************************************************************************)
EXTENDS Integers, Sequences, FiniteSets, TLC

VARIABLES
    msg_store,    \* AHMIDIProcessor.msg_store: the reassembly buffer (tokens)
    completed,    \* what is_complete_midi_message returned in the last delivery
    caught,       \* exception caught by midi_callback's except clause, or "none"
    escaped,      \* exception that left midi_callback, or "none"
    handed,       \* the message the last delivery handed to MIDIProcessor
    result,       \* processor.result of the last delivery
    routed,       \* the handler MIDIProcessor.process ran in the last delivery
    sent,         \* the sends of the last delivery: path, value, and per-target outcome
    stream,       \* history: every token delivered since construction
    ncomplete,    \* history: number of deliveries that reported completion
    targets,      \* OSCClient.targets: the registered names, in insertion order
    clients,      \* OSCClient.targets: the client registered under each name
    add_call,     \* the last call of add_target: its number, name and options
    threads,      \* every threading.Thread send has created: call, name, state
    send_pc,      \* where OSCClient.send is: "idle", "start" (the start loop), "join"
    send_i,       \* the index the start loop or the join loop of send is at
    send_threads, \* the local list threads of send: indices into threads
    send_call,    \* the call of send in progress or last made: id, path, value, down
    osc_exc,      \* the exception the last call of add_target or send raised, or "none"
    wire,         \* history: per target, the calls of its client.send_message
    logged,       \* history: per target, the calls whose failure send_message logged
    warnings,     \* history: the warnings OSCClient logged
    cb_pc,        \* where midi_callback is: "idle", "loop" (the for loop), "in_send"
    cb_items,     \* the items of processor.result the for loop has not reached
    inflight      \* per calling thread, where its invocation of midi_callback is

oscvars == <<targets, clients, add_call, threads, send_pc, send_i, send_threads, send_call, osc_exc,
             wire, logged, warnings, cb_pc, cb_items, inflight>>

vars == <<msg_store, completed, caught, escaped, handed, result, routed, sent, stream, ncomplete,
          targets, clients, add_call, threads, send_pc, send_i, send_threads, send_call, osc_exc,
          wire, logged, warnings, cb_pc, cb_items, inflight>>

----------------------------------------------------------------------------
(* Bounds of the model. *)

\* Total number of tokens the driver delivers in one behaviour of Spec.
MaxTokens == 4

\* Longest chunk one delivery of Spec carries.
MaxChunk == 3

\* Total number of tokens the driver delivers in one behaviour of SpecPipeline.
MaxPipeTokens == 4

\* Longest chunk one delivery of SpecPipeline carries.
MaxPipeChunk == 2

\* Longest payload of the SysEx messages SpecProc constructs.
MaxPayload == 4

\* Number of full chunks the driver delivers in SpecRing and SpecRingTail.
MaxBulk == 119

\* Number of full chunks already delivered where SpecRingTail begins.
RingPrefill == 117

\* Number of single bytes the driver delivers after the full chunks in SpecRing.
MaxSingles == 2

\* Total number of tokens the driver delivers in one behaviour of SpecPublish.
MaxPubTokens == 3

\* Number of calls of OSCClient.send in one behaviour of SpecOSC.
MaxSends == 2

\* Number of calls of OSCClient.add_target that register or overwrite a target.
MaxAdds == 3

----------------------------------------------------------------------------
(* Python helpers. *)

PyNone == [t |-> "none"]
PyStr(s) == [t |-> "str", s |-> s]
PyInt(n) == [t |-> "int", n |-> n]
PyBool(b) == [t |-> "bool", b |-> b]

EmptyDict == [k \in {} |-> k]

Ok(v) == [exc |-> "none", val |-> v]
Raise(e) == [exc |-> e, val |-> PyNone]

\* seq[n:]  (0-based n, as Python slices)
DropFirst(seq, n) == SubSeq(seq, n + 1, Len(seq))

\* seq[:n]
TakeFirst(seq, n) == SubSeq(seq, 1, IF n < Len(seq) THEN n ELSE Len(seq))

\* deque(maxlen=cap).extend(items): the oldest items fall off the left end
DequeExtend(dq, items, cap) ==
    LET all == dq \o items
    IN  IF Len(all) > cap THEN DropFirst(all, Len(all) - cap) ELSE all

----------------------------------------------------------------------------
(* src/helpers/hex.py *)

HexDigits == <<"0","1","2","3","4","5","6","7","8","9","a","b","c","d","e","f">>

\* f"0x{integer:02x}" for a byte
to_padded_hex(integer) ==
    <<"0", "x", HexDigits[(integer \div 16) + 1], HexDigits[(integer % 16) + 1]>>

HexifyMaxLen == 128

\* hexify: each item is appended, formatted, to a deque(maxlen=128), which
\* keeps the last 128 of them.
hexify(message_data) ==
    LET dropped == IF Len(message_data) > HexifyMaxLen
                   THEN Len(message_data) - HexifyMaxLen ELSE 0
    IN  [i \in 1..(Len(message_data) - dropped) |-> to_padded_hex(message_data[dropped + i])]

\* int(token, 16) for a token "0xhh"
HexDigitValue(c) == CHOOSE i \in 0..15 : HexDigits[i + 1] = c
HexInt(token) == 16 * HexDigitValue(token[3]) + HexDigitValue(token[4])

SYSEX_START == to_padded_hex(240)
SYSEX_END == to_padded_hex(247)

----------------------------------------------------------------------------
(* Lookup tables: templates.json, loaded by MessageTemplates (helpers/data.py). *)
(* The file is configuration; the tables below are one content of the shape     *)
(* the code reads: an entry of message_types is a dict with an int "length",    *)
(* a dict with a "subtype" dict, or a dict with neither.                        *)

message_types ==
    ("8" :> [length |-> 3])
    @@ ("c" :> [length |-> 2])
    @@ ("b" :> [subtype |-> ((<<"6", "3">> :> 12) @@ (<<"0", "7">> :> 3))])
    @@ ("a" :> EmptyDict)

sysex_header == <<SYSEX_START, to_padded_hex(0)>>

console_types == (to_padded_hex(1) :> "Qu-16") @@ (to_padded_hex(2) :> "Qu-24")

mmc_commands == (to_padded_hex(1) :> "stop") @@ (to_padded_hex(2) :> "play")

channel_definitions == (to_padded_hex(32) :> "1") @@ (to_padded_hex(33) :> "2")

\* dict.get(key, default)
DictGet(d, key, default) == IF key \in DOMAIN d THEN d[key] ELSE default

----------------------------------------------------------------------------
(* src/main.py: the accumulator. *)

MsgStoreMaxLen == 15000

\* get_expected_length: Ok(PyInt(n)), Ok(PyNone), or the exception the lookups
\* raise.  In message_types[message_type]["subtype"].get(message[1][2:]) the
\* two subscripts are evaluated before the argument message[1].
get_expected_length(message) ==
    IF message = <<>> THEN Ok(PyNone)
    ELSE LET message_type == message[1][3]
             entry == DictGet(message_types, message_type, EmptyDict)
         IN  IF "length" \in DOMAIN entry THEN Ok(PyInt(entry.length))
             ELSE IF message_type \notin DOMAIN message_types THEN Raise("KeyError")
             ELSE IF "subtype" \notin DOMAIN message_types[message_type] THEN Raise("KeyError")
             ELSE IF Len(message) < 2 THEN Raise("IndexError")
             ELSE LET subtype == message_types[message_type].subtype
                      key == DropFirst(message[2], 2)
                  IN  IF key \in DOMAIN subtype THEN Ok(PyInt(subtype[key])) ELSE Ok(PyNone)

\* is_complete_midi_message with the length test len(message) >= expected_length
is_complete_midi_message_AtLeast(message) ==
    IF message = <<>> THEN Ok(FALSE)
    ELSE IF message[1] = SYSEX_START THEN Ok(message[Len(message)] = SYSEX_END)
    ELSE LET expected_length == get_expected_length(message)
         IN  IF expected_length.exc # "none" THEN Raise(expected_length.exc)
             ELSE Ok(expected_length.val.t = "int" /\ Len(message) >= expected_length.val.n)

\* is_complete_midi_message: Ok(TRUE), Ok(FALSE) (None counts as FALSE: the
\* caller only tests its truth), or the exception of get_expected_length.
is_complete_midi_message(message) ==
    IF message = <<>> THEN Ok(FALSE)
    ELSE IF message[1] = SYSEX_START THEN Ok(message[Len(message)] = SYSEX_END)
    ELSE LET expected_length == get_expected_length(message)
         IN  IF expected_length.exc # "none" THEN Raise(expected_length.exc)
             ELSE Ok(expected_length.val.t = "int" /\ Len(message) = expected_length.val.n)

----------------------------------------------------------------------------
(* src/helpers/sysex.py *)

\* The placeholder result of a handler: [{}]
Placeholder == <<EmptyDict>>

\* split_message: [action, msg_data], action = <<>> standing for None
split_message(message) ==
    IF Len(message) < 3 THEN [action |-> <<>>, msg_data |-> <<>>]
    ELSE LET header_len == Len(sysex_header)
             extracted_data ==
                 IF TakeFirst(message, header_len) = sysex_header
                 THEN SubSeq(message, header_len + 1, Len(message) - 1)
                 ELSE SubSeq(message, 2, Len(message) - 1)
         IN  IF extracted_data = <<>> THEN [action |-> <<>>, msg_data |-> <<>>]
             ELSE [action |-> Head(extracted_data), msg_data |-> Tail(extracted_data)]

DecimalDigits == <<"0", "1", "2", "3", "4", "5", "6", "7", "8", "9">>

\* str(n) for n >= 0: the decimal digits of n
RECURSIVE Decimal(_)
Decimal(n) ==
    IF n < 10 THEN <<DecimalDigits[n + 1]>>
    ELSE Append(Decimal(n \div 10), DecimalDigits[(n % 10) + 1])

\* f"{int(ver_maj, 16)}.{int(ver_min, 16)}": a str, given by its characters
PyVersion(major, minor) ==
    [t |-> "str", chars |-> Decimal(major) \o <<".">> \o Decimal(minor)]

\* get_console_info with the version components formatted as they came
get_console_info_NoInt(msg_data) ==
    IF Len(msg_data) = 3
    THEN Ok(<< [result_type |-> PyStr("console_type"),
                data |-> PyStr(DictGet(console_types, msg_data[1], "Unknown"))],
               [result_type |-> PyStr("console_fwversion"),
                data |-> [t |-> "str", chars |-> msg_data[2] \o <<".">> \o msg_data[3]]] >>)
    ELSE Ok(Placeholder)

get_console_info(msg_data) ==
    IF Len(msg_data) = 3
    THEN Ok(<< [result_type |-> PyStr("console_type"),
                data |-> PyStr(DictGet(console_types, msg_data[1], "Unknown"))],
               [result_type |-> PyStr("console_fwversion"),
                data |-> PyVersion(HexInt(msg_data[2]), HexInt(msg_data[3]))] >>)
    ELSE Ok(Placeholder)

\* "".join(...).rstrip('\x00') on the character codes of the name
RECURSIVE RStripNul(_)
RStripNul(codes) ==
    IF codes # <<>> /\ codes[Len(codes)] = 0
    THEN RStripNul(SubSeq(codes, 1, Len(codes) - 1))
    ELSE codes

\* A string given by its character codes.
PyText(codes) == [t |-> "str", codes |-> codes]

\* bytearray.fromhex(item[2:]).decode() decodes one byte as UTF-8: a byte of
\* 0x80 or more is no complete UTF-8 sequence.
get_channel_name(msg_data) ==
    LET ch_number == msg_data[1]
        ch_name_array == Tail(msg_data)
        codes == [i \in 1..Len(ch_name_array) |-> HexInt(ch_name_array[i])]
    IN  IF \E i \in 1..Len(codes) : codes[i] >= 128 THEN Raise("UnicodeDecodeError")
        ELSE Ok(<< [result_type |-> PyStr("channel_name"),
                    channel |-> PyStr(DictGet(channel_definitions, ch_number, "Unknown")),
                    data |-> PyText(RStripNul(codes))] >>)

handle_end_of_sync ==
    Ok(<< [result_type |-> PyStr("function"),
           function |-> PyStr("end-of-sync"),
           data |-> PyNone] >>)

handle_mmc_action(msg_data) ==
    IF Len(msg_data) < 3 THEN Raise("IndexError")
    ELSE Ok(<< [result_type |-> PyStr("mmc_action"),
                action |-> PyStr(DictGet(mmc_commands, msg_data[3], "Unknown")),
                data |-> PyNone] >>)

handle_action(action, msg_data) ==
    IF action = to_padded_hex(2) THEN get_channel_name(msg_data)
    ELSE IF action = to_padded_hex(17) THEN get_console_info(msg_data)
    ELSE IF action = to_padded_hex(19) THEN Ok(Placeholder)
    ELSE IF action = to_padded_hex(20) THEN handle_end_of_sync
    ELSE IF action = to_padded_hex(127) THEN handle_mmc_action(msg_data)
    ELSE Ok(Placeholder)

\* SysExHandler(logger, message, templates).result
SysExHandler(message) ==
    LET split == split_message(message)
    IN  IF split.action # <<>> /\ split.msg_data # <<>>
        THEN handle_action(split.action, split.msg_data)
        ELSE Ok(Placeholder)

----------------------------------------------------------------------------
(* src/helpers/nrpn.py *)

\* The channel lookup with get(ch_number) and no default
ChannelOf_NoDefault(message) ==
    IF message[3] \in DOMAIN channel_definitions
    THEN PyStr(channel_definitions[message[3]]) ELSE PyNone

ChannelOf(message) == PyStr(DictGet(channel_definitions, message[3], "Unknown"))

get_fader_position(message) ==
    Ok(<< [result_type |-> PyStr("channel_fader"),
           channel |-> ChannelOf(message),
           data |-> PyStr("placeholder")] >>)

PanOffset == 37

\* get_pan_position without the offset: the raw value as data
get_pan_position_Raw(message) ==
    IF Len(message) < 9 THEN Raise("IndexError")
    ELSE Ok(<< [result_type |-> PyStr("channel_pan"),
                channel |-> ChannelOf(message),
                data |-> PyInt(HexInt(message[9]))] >>)

get_pan_position(message) ==
    IF Len(message) < 9 THEN Raise("IndexError")
    ELSE Ok(<< [result_type |-> PyStr("channel_pan"),
                channel |-> ChannelOf(message),
                data |-> PyInt(HexInt(message[9]) - PanOffset)] >>)

get_pafl_select(message) ==
    IF Len(message) < 9 THEN Raise("IndexError")
    ELSE Ok(<< [result_type |-> PyStr("pafl_select"),
                channel |-> ChannelOf(message),
                data |-> PyBool(HexInt(message[9]) # 0)] >>)

preamp_source_map == (to_padded_hex(0) :> "local") @@ (to_padded_hex(1) :> "dsnake")

get_ch_preamp_source(message) ==
    IF Len(message) < 9 THEN Raise("IndexError")
    ELSE Ok(<< [result_type |-> PyStr("ch_preamp_source"),
                channel |-> ChannelOf(message),
                data |-> PyStr(DictGet(preamp_source_map, message[9], "Unknown"))] >>)

usb_source_map == (to_padded_hex(0) :> "preamp") @@ (to_padded_hex(1) :> "usb")

get_ch_usb_source(message) ==
    IF Len(message) < 9 THEN Raise("IndexError")
    ELSE Ok(<< [result_type |-> PyStr("ch_usb_source"),
                channel |-> ChannelOf(message),
                data |-> PyStr(DictGet(usb_source_map, message[9], "Unknown"))] >>)

handle_parameter(parameter, message) ==
    IF parameter = to_padded_hex(18) THEN get_ch_usb_source(message)
    ELSE IF parameter = to_padded_hex(22) THEN get_pan_position(message)
    ELSE IF parameter = to_padded_hex(23) THEN get_fader_position(message)
    ELSE IF parameter = to_padded_hex(81) THEN get_pafl_select(message)
    ELSE IF parameter = to_padded_hex(87) THEN get_ch_preamp_source(message)
    ELSE Ok(Placeholder)

\* NRPNHandler(logger, message, templates).result
NRPNHandler(message) ==
    IF Len(message) < 6 THEN Raise("IndexError")
    ELSE handle_parameter(message[6], message)

----------------------------------------------------------------------------
(* src/helpers/midi.py: MIDIProcessor *)

\* The objects a caller may pass as MIDIProcessor's message argument.
PyByteList(items) == [t |-> "list", items |-> items]
PyFloat == [t |-> "float"]
PyToken(chars) == [t |-> "str", chars |-> chars]

\* The deque of tokens, as the sequence of str objects it holds.
AsObjects(tokens) == [i \in 1..Len(tokens) |-> PyToken(tokens[i])]

\* MIDIProcessor.hexify(message_data): iterates its argument and formats each
\* item with the format code x, which str items (the characters of a str) do
\* not accept.
ProcessorHexify(message_data) ==
    IF message_data.t = "list" THEN Ok(hexify(message_data.items))
    ELSE IF message_data.t = "str"
         THEN IF message_data.chars = <<>> THEN Ok(<<>>) ELSE Raise("ValueError")
    ELSE Raise("TypeError")

dispatch_map == (SYSEX_START :> "SysExHandler") @@ (<<"0", "x", "b">> :> "NRPNHandler")

RunHandler(handler, message) ==
    IF handler = "SysExHandler" THEN SysExHandler(message) ELSE NRPNHandler(message)

\* The result of MIDIProcessor while no handler has run: {} (a dict, no list)
NoResult == [t |-> "dict"]

\* A handler's result: a list of dicts
PyEventList(items) == [t |-> "list", items |-> items]

\* len(message_type) > 2 and message_type[:2]
Prefix(message_type) == TakeFirst(message_type, 2)

\* MIDIProcessor.process: [exc, val (the result), handler (the handler run)]
process(message) ==
    IF message = <<>> THEN [exc |-> "IndexError", val |-> NoResult, handler |-> "none"]
    ELSE LET message_type == message[1]
             key == IF message_type \in DOMAIN dispatch_map THEN message_type
                    ELSE IF Len(message_type) > 2 /\ Prefix(message_type) \in DOMAIN dispatch_map
                         THEN Prefix(message_type)
                    ELSE <<>>
         IN  IF key = <<>> THEN [exc |-> "none", val |-> NoResult, handler |-> "none"]
             ELSE LET r == RunHandler(dispatch_map[key], message)
                  IN  [exc |-> r.exc,
                       val |-> IF r.exc = "none" THEN PyEventList(r.val) ELSE NoResult,
                       handler |-> dispatch_map[key]]

\* self.message_data, self.dtime = message
Unpack(message) ==
    IF Len(message) = 2 THEN Ok(message[1]) ELSE Raise("ValueError")

\* MIDIProcessor(logger, message, data, templates): the constructor unpacks
\* message into (message_data, dtime), hexifies message_data and runs process.
MIDIProcessor(message) ==
    LET message_data == Unpack(message)
    IN  IF message_data.exc # "none"
        THEN [exc |-> message_data.exc, val |-> NoResult, handler |-> "none"]
        ELSE LET hex == ProcessorHexify(message_data.val)
             IN  IF hex.exc # "none"
                 THEN [exc |-> hex.exc, val |-> NoResult, handler |-> "none"]
                 ELSE process(hex.val)

----------------------------------------------------------------------------
(* src/helpers/osc.py: OSCClient.send, as far as the mapper sees it. *)

\* The registered targets (app_config.json, osc_options.targets).
Targets == {"desk", "tablet"}

Lit(text) == [lit |-> text]

\* path.startswith("/"): the first segment of the address is empty
StartsWithSlash(path) == Len(path) >= 2 /\ path[1] = Lit("")

\* send(path, value): raises ValueError for a path that does not start with
\* "/"; otherwise one send per target, and the failure of a target (those in
\* down) is caught and logged inside send_message.
osc_send(path, value, down) ==
    IF StartsWithSlash(path)
    THEN Ok(<<[path |-> path, value |-> value,
               delivered |-> Targets \ down, failed |-> Targets \cap down]>>)
    ELSE [exc |-> "ValueError", val |-> <<>>]

\* The threads that may call midi_callback: the driver's input thread, and
\* any other thread of the process.
Callers == {"driver", "other"}

\* The names a target may be registered under.
TargetNames == {"desk", "tablet", "stage"}

\* The targets of app_config.json in the order setup_osc_client registers them.
TargetOrder == <<"desk", "tablet">>

\* A path argument of send: a str, given by its segments.
PyPath(segments) == [t |-> "str", segments |-> segments]

\* udp_client.SimpleUDPClient(address, port)
SimpleUDPClient(address, port) == [address |-> address, port |-> port]

\* The client right after targets have been registered in the order given, no
\* send made yet.
OscIdle(registered) ==
    /\ targets = registered
    /\ clients = [n \in {registered[i] : i \in DOMAIN registered} |->
                      SimpleUDPClient(PyStr("host"), PyInt(1))]
    /\ add_call = [id |-> 0, name |-> "", options |-> EmptyDict]
    /\ threads = <<>>
    /\ send_pc = "idle"
    /\ send_i = 0
    /\ send_threads = <<>>
    /\ send_call = [id |-> 0, path |-> PyNone, value |-> PyNone, down |-> {}]
    /\ osc_exc = "none"
    /\ wire = [n \in TargetNames |-> <<>>]
    /\ logged = [n \in TargetNames |-> <<>>]
    /\ warnings = <<>>
    /\ cb_pc = "idle"
    /\ cb_items = <<>>
    /\ inflight = [t \in Callers |-> "idle"]

----------------------------------------------------------------------------
(* src/main.py: map_to_osc *)

Var(name) == [var |-> name]

\* The templates with "qu/mmc/{{action}}" for mmc_action: no leading "/"
osc_path_templates_NoRoot ==
    [channel_name |-> <<Lit(""), Lit("qu"), Lit("channel"), Var("channel"), Lit("name")>>,
     channel_fader |-> <<Lit(""), Lit("qu"), Lit("channel"), Var("channel"), Lit("fader")>>,
     channel_pan |-> <<Lit(""), Lit("qu"), Lit("channel"), Var("channel"), Lit("pan"), Var("mix")>>,
     ch_preamp_source |-> <<Lit(""), Lit("qu"), Lit("channel"), Var("channel"), Lit("preamp-source")>>,
     ch_usb_source |-> <<Lit(""), Lit("qu"), Lit("channel"), Var("channel"), Lit("usb-source")>>,
     pafl_select |-> <<Lit(""), Lit("qu"), Lit("channel"), Var("channel"), Lit("pafl-select")>>,
     console_fwversion |-> <<Lit(""), Lit("qu"), Lit("console"), Lit("fw-version")>>,
     console_type |-> <<Lit(""), Lit("qu"), Lit("console"), Lit("type")>>,
     function |-> <<Lit(""), Lit("qu"), Lit("function"), Var("function")>>,
     mmc_action |-> <<Lit("qu"), Lit("mmc"), Var("action")>>]

osc_path_templates ==
    [channel_name |-> <<Lit(""), Lit("qu"), Lit("channel"), Var("channel"), Lit("name")>>,
     channel_fader |-> <<Lit(""), Lit("qu"), Lit("channel"), Var("channel"), Lit("fader")>>,
     channel_pan |-> <<Lit(""), Lit("qu"), Lit("channel"), Var("channel"), Lit("pan"), Var("mix")>>,
     ch_preamp_source |-> <<Lit(""), Lit("qu"), Lit("channel"), Var("channel"), Lit("preamp-source")>>,
     ch_usb_source |-> <<Lit(""), Lit("qu"), Lit("channel"), Var("channel"), Lit("usb-source")>>,
     pafl_select |-> <<Lit(""), Lit("qu"), Lit("channel"), Var("channel"), Lit("pafl-select")>>,
     console_fwversion |-> <<Lit(""), Lit("qu"), Lit("console"), Lit("fw-version")>>,
     console_type |-> <<Lit(""), Lit("qu"), Lit("console"), Lit("type")>>,
     function |-> <<Lit(""), Lit("qu"), Lit("function"), Var("function")>>,
     mmc_action |-> <<Lit(""), Lit("qu"), Lit("mmc"), Var("action")>>]

\* jinja2: a name the context lacks is Undefined, which renders as the empty
\* string; a name it has renders as str(value).
RenderVar(name, context) ==
    IF name \in DOMAIN context THEN [str_of |-> context[name]] ELSE Lit("")

\* Template(text).render(result)
Render(template, context) ==
    [i \in 1..Len(template) |->
        IF "var" \in DOMAIN template[i] THEN RenderVar(template[i].var, context)
        ELSE template[i]]

\* result.get("result_type", "")
ResultType(event) ==
    IF "result_type" \in DOMAIN event THEN event.result_type.s ELSE ""

\* map_to_osc without the test "result_type in osc_path_templates"
map_to_osc_NoTypeCheck(event, down) ==
    LET result_type == ResultType(event)
    IN  IF result_type \notin DOMAIN osc_path_templates THEN [exc |-> "KeyError", val |-> <<>>]
        ELSE LET osc_path == Render(osc_path_templates[result_type], event)
             IN  IF "data" \notin DOMAIN event THEN [exc |-> "KeyError", val |-> <<>>]
                 ELSE osc_send(osc_path, event.data, down)

\* map_to_osc(result): [exc, val (the sends it made)]
map_to_osc(event, down) ==
    LET result_type == ResultType(event)
    IN  IF result_type \in DOMAIN osc_path_templates
        THEN LET osc_path == Render(osc_path_templates[result_type], event)
             IN  IF "data" \notin DOMAIN event THEN [exc |-> "KeyError", val |-> <<>>]
                 ELSE osc_send(osc_path, event.data, down)
        ELSE Ok(<<>>)

----------------------------------------------------------------------------
(* src/main.py: midi_callback *)

\* msg_bytes = hexify(msg_bytes); self.msg_store.extend(msg_bytes)
Accumulate(store, msg_bytes) == DequeExtend(store, hexify(msg_bytes), MsgStoreMaxLen)

\* for item in processor.result: self.map_to_osc(item)
\* [exc, val (the sends made before the loop ended)]
RECURSIVE MapAll(_, _, _)
MapAll(items, done, down) ==
    IF items = <<>> THEN [exc |-> "none", val |-> done]
    ELSE LET m == map_to_osc(Head(items), down)
         IN  IF m.exc # "none" THEN [exc |-> m.exc, val |-> done \o m.val]
             ELSE MapAll(Tail(items), done \o m.val, down)

\* if not self.is_complete_midi_message(self.msg_store): return
IsComplete(store) ==
    LET complete == is_complete_midi_message(store)
    IN  complete.exc = "none" /\ complete.val

\* except ValueError: the other exceptions leave the callback
ExceptClause_ValueErrorOnly(exc) ==
    IF exc \in {"none", "ValueError"} THEN [caught |-> exc, escaped |-> "none"]
    ELSE [caught |-> "none", escaped |-> exc]

\* except Exception: every exception of the try body is caught and logged.
ExceptClause(exc) == [caught |-> exc, escaped |-> "none"]

Outcome(store, complete, exc, message, proc, sends) ==
    [msg_store |-> store, completed |-> complete,
     caught |-> ExceptClause(exc).caught, escaped |-> ExceptClause(exc).escaped,
     handed |-> message, result |-> proc.val, routed |-> proc.handler, sent |-> sends]

\* What the callback leaves when no MIDIProcessor was constructed.
NoProcessor == [exc |-> "none", val |-> NoResult, handler |-> "none"]

\* The try body from line 122 on, for a store that holds a complete message;
\* proc is what constructing the MIDIProcessor gave.  preserve_store is False
\* once the constructor has returned.
Pipeline(store, proc, down) ==
    IF proc.exc # "none" THEN Outcome(store, TRUE, proc.exc, store, proc, <<>>)
    ELSE IF proc.val.t = "list"
         THEN LET mapped == MapAll(proc.val.items, <<>>, down)
              IN  IF mapped.exc # "none"
                  THEN Outcome(store, TRUE, mapped.exc, store, proc, mapped.val)
                  ELSE Outcome(<<>>, TRUE, "none", store, proc, mapped.val)
         ELSE Outcome(<<>>, TRUE, "none", store, proc, <<>>)

\* The try body with preserve_store False from the start: the except clause
\* clears the store.
TryBody_ResetOnError(store, proc, down) ==
    LET complete == is_complete_midi_message(store)
    IN  IF complete.exc # "none" THEN Outcome(<<>>, FALSE, complete.exc, <<>>, NoProcessor, <<>>)
        ELSE IF ~complete.val THEN Outcome(store, FALSE, "none", <<>>, NoProcessor, <<>>)
        ELSE Pipeline(store, proc, down)

\* The try body, for the store after the extend.
TryBody(store, proc, down) ==
    LET complete == is_complete_midi_message(store)
    IN  IF complete.exc # "none" THEN Outcome(store, FALSE, complete.exc, <<>>, NoProcessor, <<>>)
        ELSE IF ~complete.val THEN Outcome(store, FALSE, "none", <<>>, NoProcessor, <<>>)
        ELSE Pipeline(store, proc, down)

\* midi_callback(message, data) with message = (msg_bytes, delta time)
midi_callback(store, msg_bytes, down) ==
    LET extended == Accumulate(store, msg_bytes)
    IN  TryBody(extended, MIDIProcessor(AsObjects(extended)), down)

----------------------------------------------------------------------------
(* The bridge in operation: the MIDI driver calls midi_callback once per chunk. *)

\* The bytes the driver delivers: SysEx start and end, a program change (c),
\* a note off (8), a control change (b), a poly pressure (a), and two data
\* bytes (0x07, 0x63).
Bytes == {240, 247, 192, 128, 176, 160, 7, 99}

RECURSIVE SeqsUpTo(_, _)
SeqsUpTo(S, n) ==
    IF n = 0 THEN {<<>>}
    ELSE LET shorter == SeqsUpTo(S, n - 1)
         IN  shorter \cup {Append(q, b) : q \in {r \in shorter : Len(r) = n - 1}, b \in S}

\* The driver delivers whole MIDI messages or parts of them, never nothing.
Chunks == SeqsUpTo(Bytes, MaxChunk) \ {<<>>}

Init ==
    /\ msg_store = <<>>
    /\ completed = FALSE
    /\ caught = "none"
    /\ escaped = "none"
    /\ handed = <<>>
    /\ result = NoResult
    /\ routed = "none"
    /\ sent = <<>>
    /\ stream = <<>>
    /\ ncomplete = 0
    /\ OscIdle(TargetOrder)

Apply(out) ==
    /\ msg_store' = out.msg_store
    /\ completed' = out.completed
    /\ caught' = out.caught
    /\ escaped' = out.escaped
    /\ handed' = out.handed
    /\ result' = out.result
    /\ routed' = out.routed
    /\ sent' = out.sent
    /\ ncomplete' = ncomplete + (IF out.completed THEN 1 ELSE 0)
    /\ UNCHANGED oscvars

\* The sets of unreachable targets that can matter to a delivery: a delivery
\* that does not complete a message sends nothing.
DownSets(store) == IF IsComplete(store) THEN SUBSET Targets ELSE {{}}

\* One delivery: the driver calls midi_callback with a chunk, while the
\* targets in down are unreachable.
DeliverFrom(chunks, max) ==
    \E msg_bytes \in chunks :
        /\ escaped = "none"
        /\ Len(stream) + Len(msg_bytes) <= max
        /\ \E down \in DownSets(Accumulate(msg_store, msg_bytes)) :
               /\ stream' = stream \o hexify(msg_bytes)
               /\ Apply(midi_callback(msg_store, msg_bytes, down))

Deliver == DeliverFrom(Chunks, MaxTokens)

Next == Deliver

Spec == Init /\ [][Next]_vars

----------------------------------------------------------------------------
(* The ring: a SysEx start followed by more tokens than msg_store holds.   *)
(* The driver sends the start marker, then full chunks of one filler byte, *)
(* and at any time switches to single bytes.                               *)

\* A data byte, and a status byte whose length the table defines.
Fillers == {7, 192}

BulkChunk(b) == [i \in 1..HexifyMaxLen |-> b]

RingBytes == {7, 192, 176, 247}

Bulks == (Len(stream) - 1) \div HexifyMaxLen
Singles == (Len(stream) - 1) % HexifyMaxLen

RingStart ==
    /\ stream = <<>>
    /\ stream' = hexify(<<240>>)
    /\ Apply(midi_callback(msg_store, <<240>>, {}))

RingBulk ==
    \E b \in Fillers :
        /\ stream # <<>>
        /\ Singles = 0
        /\ Bulks < MaxBulk
        /\ Bulks > 0 => stream[2] = to_padded_hex(b)
        /\ stream' = stream \o hexify(BulkChunk(b))
        /\ Apply(midi_callback(msg_store, BulkChunk(b), {}))

RingSingle ==
    \E b \in RingBytes :
        /\ stream # <<>>
        /\ Singles < MaxSingles
        /\ stream' = stream \o hexify(<<b>>)
        /\ Apply(midi_callback(msg_store, <<b>>, {}))

NextRing == RingStart \/ RingBulk \/ RingSingle

SpecRing == Init /\ [][NextRing]_vars

\* The same deliveries, begun where the start marker and RingPrefill full
\* chunks of a filler have been delivered: the ring is about to overflow.
PrefillTokens(b) ==
    <<SYSEX_START>> \o [i \in 1..(RingPrefill * HexifyMaxLen) |-> to_padded_hex(b)]

\* What the extends of those deliveries leave in msg_store.
PrefillStore(b) == DequeExtend(<<>>, PrefillTokens(b), MsgStoreMaxLen)

\* The state the last of those deliveries returns in.
AfterPrefill(b) ==
    /\ stream = PrefillTokens(b)
    /\ LET out == TryBody(PrefillStore(b), MIDIProcessor(AsObjects(PrefillStore(b))), {})
       IN  /\ msg_store = out.msg_store
           /\ completed = out.completed
           /\ caught = out.caught
           /\ escaped = out.escaped
           /\ handed = out.handed
           /\ result = out.result
           /\ routed = out.routed
           /\ sent = out.sent
    /\ ncomplete = 0
    /\ OscIdle(TargetOrder)

InitRingTail == \E b \in Fillers : AfterPrefill(b)

NextRingTail == RingBulk \/ RingSingle

SpecRingTail == InitRingTail /\ [][NextRingTail]_vars

\* In SpecRing, which begins at construction, the state after the start
\* marker and RingPrefill full chunks is an initial state of SpecRingTail.
RingTailBeginsInReachableState ==
    (stream # <<>> /\ Bulks = RingPrefill /\ Singles = 0) => InitRingTail

----------------------------------------------------------------------------
(* Long chunks: the driver delivers a message of about HexifyMaxLen bytes  *)
(* in one call, then single bytes.  Here stream holds a token for every    *)
(* byte delivered, whether or not hexify kept it.                          *)

\* The token of every byte of a chunk, in order
TokensOf(msg_bytes) == [i \in 1..Len(msg_bytes) |-> to_padded_hex(msg_bytes[i])]

\* A first byte followed by n - 1 filler bytes
LongChunk(first, b, n) == [i \in 1..n |-> IF i = 1 THEN first ELSE b]

LongDeliver ==
    \E first \in {240, 192}, b \in Fillers,
       n \in {HexifyMaxLen - 1, HexifyMaxLen, HexifyMaxLen + 1} :
        /\ stream = <<>>
        /\ stream' = TokensOf(LongChunk(first, b, n))
        /\ Apply(midi_callback(msg_store, LongChunk(first, b, n), {}))

ShortDeliver ==
    \E b \in RingBytes :
        /\ stream # <<>>
        /\ Len(stream) < (HexifyMaxLen + 1) + MaxSingles
        /\ stream' = stream \o TokensOf(<<b>>)
        /\ Apply(midi_callback(msg_store, <<b>>, {}))

NextLong == LongDeliver \/ ShortDeliver

SpecLong == Init /\ [][NextLong]_vars

----------------------------------------------------------------------------
(* The pipeline behind the processor: midi_callback with the MIDIProcessor  *)
(* replaced by a stand-in whose construction raises or leaves any of a set *)
(* of results, beside the deliveries with the MIDIProcessor itself.        *)

EvFader == get_fader_position(<<to_padded_hex(176), to_padded_hex(99), to_padded_hex(32)>>).val[1]

EvPan ==
    get_pan_position([i \in 1..9 |-> to_padded_hex(IF i = 3 THEN 32 ELSE 37)]).val[1]

EvConsole == get_console_info(<<to_padded_hex(1), to_padded_hex(2), to_padded_hex(5)>>).val[1]

\* An event of a registered type without the data field.
EvNoData == [result_type |-> PyStr("channel_fader"), channel |-> PyStr("1")]

\* An event of a type map_to_osc has no template for.
EvMeter == [result_type |-> PyStr("meter_data"), data |-> PyInt(1)]

Events == {EvFader, EvPan, EvConsole, EvNoData, EvMeter, EmptyDict}

ResultLists == {<<>>} \cup {<<a>> : a \in Events} \cup {<<a, b>> : a \in Events, b \in Events}

ProcOutcomes ==
    {[exc |-> "none", val |-> PyEventList(l), handler |-> "stand-in"] : l \in ResultLists}
    \cup {[exc |-> "none", val |-> NoResult, handler |-> "none"]}
    \cup {[exc |-> e, val |-> NoResult, handler |-> "none"] : e \in {"IndexError", "UnicodeDecodeError"}}

PipeBytes == {240, 247, 192}

PipeChunks == SeqsUpTo(PipeBytes, MaxPipeChunk) \ {<<>>}

\* The processor is constructed only for a complete message.
OutcomesFor(store) ==
    IF IsComplete(store) THEN ProcOutcomes ELSE {NoProcessor}

DeliverWith ==
    \E msg_bytes \in PipeChunks :
        LET extended == Accumulate(msg_store, msg_bytes)
        IN  \E proc \in OutcomesFor(extended), down \in SUBSET Targets :
                /\ escaped = "none"
                /\ Len(stream) + Len(msg_bytes) <= MaxPipeTokens
                /\ stream' = stream \o hexify(msg_bytes)
                /\ Apply(TryBody(extended, proc, down))

DeliverReal == DeliverFrom(PipeChunks, MaxPipeTokens)

NextPipeline == DeliverWith \/ DeliverReal

SpecPipeline == Init /\ [][NextPipeline]_vars

----------------------------------------------------------------------------
(* The mapper alone: map_to_osc called with one event of any result type,   *)
(* registered or not, whose fields hold any of a set of values.             *)

\* What a field of an event may hold: a channel name, the default of an
\* unknown channel, texts with "/" in them, the empty text, None, an int.
MapValues == {PyStr("1"), PyStr("Unknown"), PyStr("a/b"), PyStr("/"), PyStr(""), PyNone, PyInt(0)}

MapTypes ==
    {"channel_name", "channel_fader", "channel_pan", "ch_preamp_source", "ch_usb_source",
     "pafl_select", "console_fwversion", "console_type", "function", "mmc_action", "meter_data"}

\* The fields beside result_type and data: none, or one the templates name
MapFields ==
    {EmptyDict} \cup {(k :> v) : k \in {"channel", "function", "action", "mix"}, v \in MapValues}

MapData == {EmptyDict, "data" :> PyInt(0), "data" :> PyNone}

MapEvents ==
    {EmptyDict} \cup
    {("result_type" :> PyStr(rt)) @@ f @@ d : rt \in MapTypes, f \in MapFields, d \in MapData}

\* self.map_to_osc(event), the targets in down unreachable.  map_to_osc keeps
\* no state of its own, so each behaviour makes one call.
Map ==
    \E event \in MapEvents, down \in SUBSET Targets :
        LET mapped == map_to_osc(event, down)
        IN  /\ result = NoResult
            /\ result' = PyEventList(<<event>>)
            /\ caught' = mapped.exc
            /\ sent' = mapped.val
            /\ UNCHANGED <<msg_store, completed, escaped, handed, routed, stream, ncomplete>>
            /\ UNCHANGED oscvars

NextMap == Map

SpecMap == Init /\ [][NextMap]_vars

-----------------------------------------------------------------------------
(* The processor alone: MIDIProcessor constructed as its signature asks,   *)
(* with message = (list of bytes, delta time).                             *)

Nrpn(ch, param, val) == <<176, 99, ch, 176, 98, param, 176, 6, val, 176, 38, 0>>

NrpnMessages ==
    {TakeFirst(Nrpn(ch, param, val), n) :
        ch \in {32, 40}, param \in {18, 22, 23, 81, 87, 1}, val \in {0, 1, 37, 74},
        n \in {3, 6, 8, 12}}

Payloads == SeqsUpTo({0, 1, 67, 200}, MaxPayload)

\* SysEx messages with and without the configured header
SysExMessages ==
    {head \o <<action>> \o payload \o <<247>> :
        head \in {<<240, 0>>, <<240>>}, action \in {2, 17, 19, 20, 127, 5},
        payload \in Payloads}
    \cup {<<240, 247>>, <<240, 0, 247>>}

ProcMessages == NrpnMessages \cup SysExMessages \cup {<<192, 7>>, <<128, 60, 0>>}

\* One construction per behaviour; caught is here the exception the
\* constructor raised.
Construct ==
    \E msg_bytes \in ProcMessages :
        LET proc == MIDIProcessor(<<PyByteList(msg_bytes), PyFloat>>)
        IN  /\ handed = <<>>
            /\ handed' = hexify(msg_bytes)
            /\ result' = proc.val
            /\ routed' = proc.handler
            /\ caught' = proc.exc
            /\ UNCHANGED <<msg_store, completed, escaped, sent, stream, ncomplete>>
            /\ UNCHANGED oscvars

NextProc == Construct

SpecProc == Init /\ [][NextProc]_vars

----------------------------------------------------------------------------
(* The decoders alone: SysExHandler or NRPNHandler constructed on a message *)
(* of hex tokens, as MIDIProcessor.process constructs them.                 *)

\* One construction per behaviour; caught is here the exception the
\* constructor raised.
Decode ==
    \E msg_bytes \in ProcMessages, handler \in {"SysExHandler", "NRPNHandler"} :
        LET message == hexify(msg_bytes)
            r == RunHandler(handler, message)
        IN  /\ handed = <<>>
            /\ handed' = message
            /\ routed' = handler
            /\ caught' = r.exc
            /\ result' = IF r.exc = "none" THEN PyEventList(r.val) ELSE NoResult
            /\ UNCHANGED <<msg_store, completed, escaped, sent, stream, ncomplete>>
            /\ UNCHANGED oscvars

NextDecode == Decode

SpecDecode == Init /\ [][NextDecode]_vars

----------------------------------------------------------------------------
(* src/helpers/osc.py: OSCClient with the worker threads of send.          *)
(* send validates the path, returns at once when no target is registered,  *)
(* and otherwise creates one thread per target, starts them in order and   *)
(* joins them in order.  A started thread runs send_message at any time.   *)

basevars == <<msg_store, completed, caught, escaped, handed, result, routed, stream, ncomplete,
              inflight>>

\* target_options as add_target may receive them
TargetOptions ==
    { ("address" :> PyStr("host")) @@ ("port" :> PyInt(1)),
      ("address" :> PyStr("host")) @@ ("port" :> PyStr("1")),
      ("port" :> PyInt(1)) }

\* target_options with a second host and with other faults: no port, an
\* address that is no str, nothing at all
RegisterOptions ==
    TargetOptions \cup
    { ("address" :> PyStr("backup")) @@ ("port" :> PyInt(2)),
      ("address" :> PyStr("host")),
      ("address" :> PyInt(1)) @@ ("port" :> PyInt(1)),
      EmptyDict }

IsRegistered(registered, target_name) ==
    \E i \in 1..Len(registered) : registered[i] = target_name

\* self.targets[target_name] = client: the dict's values after the assignment
DictSet(dict, key, value) ==
    [k \in DOMAIN dict \cup {key} |-> IF k = key THEN value ELSE dict[k]]

\* add_target that keeps the client a name already has
add_target_KeepExisting(registered, held, target_name, target_options) ==
    LET address == DictGet(target_options, "address", PyNone)
        port == DictGet(target_options, "port", PyNone)
    IN  IF address.t # "str" \/ port.t # "int"
        THEN [exc |-> "ValueError", targets |-> registered, clients |-> held, warned |-> <<>>]
        ELSE IF IsRegistered(registered, target_name)
             THEN [exc |-> "none", targets |-> registered, clients |-> held,
                   warned |-> <<"overwriting">>]
             ELSE [exc |-> "none", targets |-> Append(registered, target_name),
                   clients |-> DictSet(held, target_name, SimpleUDPClient(address, port)),
                   warned |-> <<>>]

\* add_target on the dict whose keys are registered and whose values are
\* held: [exc, targets, clients, warned]
add_target(registered, held, target_name, target_options) ==
    LET address == DictGet(target_options, "address", PyNone)
        port == DictGet(target_options, "port", PyNone)
    IN  IF address.t # "str" \/ port.t # "int"
        THEN [exc |-> "ValueError", targets |-> registered, clients |-> held, warned |-> <<>>]
        ELSE [exc |-> "none",
              targets |-> IF IsRegistered(registered, target_name) THEN registered
                          ELSE Append(registered, target_name),
              clients |-> DictSet(held, target_name, SimpleUDPClient(address, port)),
              warned |-> IF IsRegistered(registered, target_name) THEN <<"overwriting">>
                         ELSE <<>>]

\* The path test of send with "isinstance(path, str)" alone
ValidPath_AnyStr(path) == path.t = "str"

\* isinstance(path, str) and path.startswith("/")
ValidPath(path) == path.t = "str" /\ StartsWithSlash(path.segments)

\* send without the test of self.targets
NoTargets_Never(registered) == FALSE

\* not self.targets
NoTargets(registered) == registered = <<>>

\* send_message without its try/except: the exception ends the thread unlogged
send_message_NoExcept(target_name, down) ==
    [ok |-> target_name \notin down, logs |-> FALSE]

\* send_message(target_name, client): client.send_message(path, value) raises
\* for a target in down; the exception is caught and logged.
send_message(target_name, down) ==
    [ok |-> target_name \notin down, logs |-> target_name \in down]

\* thread.join() that does not wait
Joined_NoWait(state) == TRUE

\* thread.join() returns once the thread has ended
Joined(state) == state = "done"

\* The targets whose client.send_message of the call succeeded, or failed
Delivered(call_id, ok) ==
    {n \in TargetNames : \E i \in 1..Len(wire[n]) : wire[n][i].call = call_id /\ wire[n][i].ok = ok}

\* send(path, value) up to the first thread.start(), or to its return when it
\* returns before.  returns tells the caller which.
SendEnter(path, value, down) ==
    LET id == send_call.id + 1
    IN  /\ send_call' = [id |-> id, path |-> path, value |-> value, down |-> down]
        /\ IF ~ValidPath(path)
           THEN /\ osc_exc' = "ValueError"
                /\ UNCHANGED <<threads, send_pc, send_i, send_threads, warnings>>
           ELSE IF NoTargets(targets)
           THEN /\ osc_exc' = "none"
                /\ warnings' = Append(warnings, "no targets")
                /\ UNCHANGED <<threads, send_pc, send_i, send_threads>>
           ELSE IF targets = <<>>
           THEN /\ osc_exc' = "none"
                /\ UNCHANGED <<threads, send_pc, send_i, send_threads, warnings>>
           ELSE /\ osc_exc' = "none"
                /\ threads' = threads \o
                       [i \in 1..Len(targets) |->
                           [call |-> id, name |-> targets[i], path |-> path,
                            value |-> value, state |-> "created"]]
                /\ send_threads' = [i \in 1..Len(targets) |-> Len(threads) + i]
                /\ send_pc' = "start"
                /\ send_i' = 1
                /\ UNCHANGED warnings
        /\ UNCHANGED <<targets, clients, add_call, wire, logged>>

\* Whether send(path, value) returns or raises before it starts a thread
ReturnsAtOnce(path) == ~ValidPath(path) \/ targets = <<>>

\* add_target(target_name, target_options) called with options of the set given
AddTargetFrom(options) ==
    \E target_name \in TargetNames, target_options \in options :
        LET r == add_target(targets, clients, target_name, target_options)
        IN  /\ send_pc = "idle" /\ cb_pc = "idle" /\ send_call.id = 0
            /\ add_call.id < MaxAdds
            /\ add_call' = [id |-> add_call.id + 1, name |-> target_name,
                            options |-> target_options]
            /\ targets' = r.targets
            /\ clients' = r.clients
            /\ osc_exc' = r.exc
            /\ warnings' = warnings \o r.warned
            /\ UNCHANGED <<threads, send_pc, send_i, send_threads, send_call, wire, logged,
                           cb_pc, cb_items, sent>>
            /\ UNCHANGED basevars

\* register a target
AddTarget == AddTargetFrom(TargetOptions)

\* The path arguments: an address, a str without the leading "/", and an
\* object that is no str.
SendPaths ==
    { PyPath(<<Lit(""), Lit("qu"), Lit("console"), Lit("type")>>),
      PyPath(<<Lit("qu"), Lit("console")>>),
      PyInt(1) }

SendValues == {PyStr("Qu-16")}

Range(seq) == {seq[i] : i \in 1..Len(seq)}

\* a call of send from outside midi_callback
SendDirect ==
    \E path \in SendPaths, value \in SendValues, down \in SUBSET Range(targets) :
        /\ send_pc = "idle" /\ cb_pc = "idle"
        /\ send_call.id < MaxSends
        /\ SendEnter(path, value, down)
        /\ UNCHANGED <<cb_pc, cb_items, sent>>
        /\ UNCHANGED basevars

\* for thread in threads: thread.start()
SendStart ==
    /\ send_pc = "start"
    /\ threads' = [threads EXCEPT ![send_threads[send_i]].state = "started"]
    /\ IF send_i < Len(send_threads)
       THEN send_i' = send_i + 1 /\ UNCHANGED send_pc
       ELSE send_i' = 1 /\ send_pc' = "join"
    /\ UNCHANGED <<targets, clients, add_call, send_threads, send_call, osc_exc, wire, logged, warnings,
                   cb_pc, cb_items, sent>>
    /\ UNCHANGED basevars

\* a started thread runs send_message to its end
ThreadRun ==
    \E k \in 1..Len(threads) :
        LET name == threads[k].name
            r == send_message(name, send_call.down)
        IN  /\ threads[k].state = "started"
            /\ threads' = [threads EXCEPT ![k].state = "done"]
            /\ wire' = [wire EXCEPT ![name] =
                           Append(@, [call |-> threads[k].call, path |-> threads[k].path,
                                      value |-> threads[k].value, ok |-> r.ok])]
            /\ logged' = [logged EXCEPT ![name] =
                             IF r.logs THEN Append(@, threads[k].call) ELSE @]
            /\ UNCHANGED <<targets, clients, add_call, send_pc, send_i, send_threads, send_call, osc_exc,
                           warnings, cb_pc, cb_items, sent>>
            /\ UNCHANGED basevars

\* What map_to_osc's caller sees of the call of send that has returned
SendRecord ==
    [path |-> send_call.path.segments, value |-> send_call.value,
     delivered |-> Delivered(send_call.id, TRUE), failed |-> Delivered(send_call.id, FALSE)]

\* for thread in threads: thread.join(); after the last join send returns, and
\* inside midi_callback the for loop goes on to its next item.
SendJoin ==
    /\ send_pc = "join"
    /\ Joined(threads[send_threads[send_i]].state)
    /\ IF send_i < Len(send_threads)
       THEN /\ send_i' = send_i + 1
            /\ UNCHANGED <<send_pc, cb_pc, cb_items, sent>>
       ELSE /\ send_i' = 0
            /\ send_pc' = "idle"
            /\ IF cb_pc = "in_send"
               THEN /\ cb_pc' = "loop"
                    /\ cb_items' = Tail(cb_items)
                    /\ sent' = Append(sent, SendRecord)
               ELSE UNCHANGED <<cb_pc, cb_items, sent>>
    /\ UNCHANGED <<targets, clients, add_call, threads, send_threads, send_call, osc_exc, wire, logged, warnings>>
    /\ UNCHANGED basevars

\* OSCClient constructed, no target registered
InitOSC ==
    /\ msg_store = <<>>
    /\ completed = FALSE
    /\ caught = "none"
    /\ escaped = "none"
    /\ handed = <<>>
    /\ result = NoResult
    /\ routed = "none"
    /\ sent = <<>>
    /\ stream = <<>>
    /\ ncomplete = 0
    /\ OscIdle(<<>>)

NextOSC == AddTarget \/ SendDirect \/ SendStart \/ ThreadRun \/ SendJoin

SpecOSC == InitOSC /\ [][NextOSC]_vars

-----------------------------------------------------------------------------
(* The registry alone: add_target called with any name and any options.     *)

Register == AddTargetFrom(RegisterOptions)

NextRegister == Register

SpecRegister == InitOSC /\ [][NextRegister]_vars

----------------------------------------------------------------------------
(* midi_callback step by step through its for loop, each map_to_osc calling *)
(* send with its threads.  As in SpecPipeline the MIDIProcessor is a        *)
(* stand-in that raises or leaves any of a set of results.                  *)

\* The results of the stand-in: lists of two different events in both orders,
\* of the same event twice, with a placeholder, and with an event that lacks
\* its data field before and after a good one.
PubLists ==
    { <<>>, <<EvFader>>, <<EvFader, EvConsole>>, <<EvConsole, EvFader>>,
      <<EvConsole, EvConsole>>, <<EmptyDict, EvFader>>,
      <<EvFader, EvNoData>>, <<EvNoData, EvFader>> }

\* The network during a send of the loop: every target reachable, or one not.
PubDown == {{}, {"tablet"}}

PubOutcomes ==
    {[exc |-> "none", val |-> PyEventList(l), handler |-> "stand-in"] : l \in PubLists}
    \cup {[exc |-> "none", val |-> NoResult, handler |-> "none"]}
    \cup {[exc |-> "IndexError", val |-> NoResult, handler |-> "none"]}

\* midi_callback from its entry to the for loop, or to its return when it
\* does not reach the loop.
DeliverBegin ==
    \E msg_bytes \in PipeChunks :
        LET extended == Accumulate(msg_store, msg_bytes)
        IN  \E proc \in (IF IsComplete(extended) THEN PubOutcomes ELSE {NoProcessor}) :
                /\ cb_pc = "idle" /\ send_pc = "idle" /\ escaped = "none"
                /\ Len(stream) + Len(msg_bytes) <= MaxPubTokens
                /\ stream' = stream \o hexify(msg_bytes)
                /\ IF IsComplete(extended) /\ proc.exc = "none" /\ proc.val.t = "list"
                   THEN /\ msg_store' = extended
                        /\ completed' = TRUE
                        /\ caught' = "none"
                        /\ escaped' = "none"
                        /\ handed' = extended
                        /\ result' = proc.val
                        /\ routed' = proc.handler
                        /\ sent' = <<>>
                        /\ ncomplete' = ncomplete + 1
                        /\ cb_pc' = "loop"
                        /\ cb_items' = proc.val.items
                        /\ UNCHANGED <<targets, clients, add_call, threads, send_pc, send_i, send_threads,
                                       send_call, osc_exc, wire, logged, warnings, inflight>>
                   ELSE Apply(TryBody(extended, proc, {}))

\* The except clause of midi_callback, reached from inside the for loop.
LoopRaises(exc) ==
    /\ caught' = ExceptClause(exc).caught
    /\ escaped' = ExceptClause(exc).escaped
    /\ cb_pc' = "idle"
    /\ cb_items' = <<>>

\* self.map_to_osc(item) for the next item, up to the first thread.start() of
\* send or to the return of map_to_osc when no thread is started.
LoopStep ==
    /\ cb_pc = "loop" /\ cb_items # <<>>
    /\ LET event == Head(cb_items)
           result_type == ResultType(event)
       IN  IF result_type \notin DOMAIN osc_path_templates
           THEN /\ cb_items' = Tail(cb_items)
                /\ UNCHANGED <<cb_pc, caught, escaped, sent>>
                /\ UNCHANGED <<targets, clients, add_call, threads, send_pc, send_i, send_threads,
                               send_call, osc_exc, wire, logged, warnings>>
           ELSE IF "data" \notin DOMAIN event
           THEN /\ LoopRaises("KeyError")
                /\ UNCHANGED sent
                /\ UNCHANGED <<targets, clients, add_call, threads, send_pc, send_i, send_threads,
                               send_call, osc_exc, wire, logged, warnings>>
           ELSE LET osc_path == PyPath(Render(osc_path_templates[result_type], event))
                IN  \E down \in PubDown :
                        /\ SendEnter(osc_path, event.data, down)
                        /\ IF ~ValidPath(osc_path)
                           THEN LoopRaises("ValueError") /\ UNCHANGED sent
                           ELSE IF ReturnsAtOnce(osc_path)
                           THEN /\ cb_items' = Tail(cb_items)
                                /\ UNCHANGED <<cb_pc, caught, escaped, sent>>
                           ELSE /\ cb_pc' = "in_send"
                                /\ UNCHANGED <<cb_items, caught, escaped, sent>>
    /\ UNCHANGED <<msg_store, completed, handed, result, routed, stream, ncomplete, inflight>>

\* The for loop has ended: self.msg_store.clear(), and midi_callback returns.
LoopEnd ==
    /\ cb_pc = "loop" /\ cb_items = <<>>
    /\ msg_store' = <<>>
    /\ cb_pc' = "idle"
    /\ UNCHANGED <<completed, caught, escaped, handed, result, routed, sent, stream, ncomplete>>
    /\ UNCHANGED <<targets, clients, add_call, threads, send_pc, send_i, send_threads, send_call, osc_exc,
                   wire, logged, warnings, cb_items, inflight>>

NextPublish == DeliverBegin \/ LoopStep \/ LoopEnd \/ SendStart \/ ThreadRun \/ SendJoin

SpecPublish == Init /\ [][NextPublish]_vars

----------------------------------------------------------------------------
(* midi_callback called from more than one thread.  The method takes no    *)
(* lock: an invocation is the extend, then the try body up to the clear,   *)
(* then the clear, and another thread may run between them.  The           *)
(* MIDIProcessor is the real one or a stand-in that leaves a result that   *)
(* is no list.                                                             *)

\* msg_bytes = hexify(msg_bytes); self.msg_store.extend(msg_bytes)
CallbackExtend(t) ==
    \E msg_bytes \in PipeChunks :
        /\ inflight[t] = "idle"
        /\ Len(stream) + Len(msg_bytes) <= MaxPipeTokens
        /\ stream' = stream \o hexify(msg_bytes)
        /\ msg_store' = Accumulate(msg_store, msg_bytes)
        /\ inflight' = [inflight EXCEPT ![t] = "try"]
        /\ UNCHANGED <<completed, caught, escaped, handed, result, routed, sent, ncomplete>>
        /\ UNCHANGED <<targets, clients, add_call, threads, send_pc, send_i, send_threads, send_call, osc_exc,
                       wire, logged, warnings, cb_pc, cb_items>>

\* The try body up to "if not preserve_store", for the store as it is now
CallbackTry(t) ==
    \E proc \in {MIDIProcessor(AsObjects(msg_store)), NoProcessor} :
        LET out == TryBody(msg_store, proc, {})
            clears == out.completed /\ out.caught = "none"
        IN  /\ inflight[t] = "try"
            /\ completed' = out.completed
            /\ caught' = out.caught
            /\ escaped' = out.escaped
            /\ handed' = out.handed
            /\ result' = out.result
            /\ routed' = out.routed
            /\ sent' = out.sent
            /\ ncomplete' = ncomplete + (IF out.completed THEN 1 ELSE 0)
            /\ inflight' = [inflight EXCEPT ![t] = IF clears THEN "clear" ELSE "idle"]
            /\ UNCHANGED <<msg_store, stream>>
            /\ UNCHANGED <<targets, clients, add_call, threads, send_pc, send_i, send_threads, send_call, osc_exc,
                           wire, logged, warnings, cb_pc, cb_items>>

\* self.msg_store.clear()
CallbackClear(t) ==
    /\ inflight[t] = "clear"
    /\ msg_store' = <<>>
    /\ inflight' = [inflight EXCEPT ![t] = "idle"]
    /\ UNCHANGED <<completed, caught, escaped, handed, result, routed, sent, stream, ncomplete>>
    /\ UNCHANGED <<targets, clients, add_call, threads, send_pc, send_i, send_threads, send_call, osc_exc,
                   wire, logged, warnings, cb_pc, cb_items>>

NextCallers == \E t \in Callers : CallbackExtend(t) \/ CallbackTry(t) \/ CallbackClear(t)

SpecCallers == Init /\ [][NextCallers]_vars

----------------------------------------------------------------------------
(* Properties. *)

\* The length the table defines for the message the tokens begin, if any.
HasTableLength(tokens) ==
    LET expected == get_expected_length(tokens)
    IN  expected.exc = "none" /\ expected.val.t = "int"

TableLength(tokens) == get_expected_length(tokens).val.n

NoEndMarker(tokens) == \A i \in 1..Len(tokens) : tokens[i] # SYSEX_END

\* C1: from an empty buffer, when the deliveries have brought exactly the L
\* tokens of a non-SysEx message whose length L the table defines, completion
\* has been reported exactly once, the message handed to the dispatcher is
\* those L tokens, and msg_store is empty when the delivery returns.
C1_CompleteOnceAndEmpty ==
    (/\ stream # <<>>
     /\ stream[1] # SYSEX_START
     /\ HasTableLength(stream)
     /\ TableLength(stream) = Len(stream))
    => (completed /\ ncomplete = 1 /\ handed = stream /\ msg_store = <<>>)

\* C2: whenever midi_callback has returned, msg_store holds no complete
\* message, and a delivery that reported completion left msg_store empty.
C2_NoCompleteMessageAtRest ==
    /\ ~IsComplete(msg_store)
    /\ completed => msg_store = <<>>

\* C3: while the delivered tokens begin with the SysEx start marker and hold
\* no end marker, no delivery has reported completion and the dispatcher has
\* not been invoked, however many tokens were delivered.
C3_UnterminatedSysExNeverCompletes ==
    (stream # <<>> /\ stream[1] = SYSEX_START /\ NoEndMarker(stream))
    => (~completed /\ ncomplete = 0 /\ handed = <<>> /\ routed = "none")

\* C3 witness: an unterminated SysEx longer than the ring, whose start marker
\* has been evicted and whose first buffered token has a table-defined length.
C3_Witness ==
    /\ stream # <<>> /\ stream[1] = SYSEX_START /\ NoEndMarker(stream)
    /\ Len(stream) > MsgStoreMaxLen
    /\ Len(msg_store) = MsgStoreMaxLen
    /\ HasTableLength(msg_store)
    /\ ~completed

\* C4: a complete message whose first token has first hex digit b is routed
\* to NRPNHandler and the result is that handler's; a first token 0xf0 is
\* routed to SysExHandler.
C4_RoutedByFirstToken ==
    handed # <<>> =>
        /\ handed[1][3] = "b" =>
              /\ routed = "NRPNHandler"
              /\ caught = NRPNHandler(handed).exc
              /\ caught = "none" => result = PyEventList(NRPNHandler(handed).val)
        /\ handed[1] = SYSEX_START => routed = "SysExHandler"

\* C5: no exception leaves midi_callback.
C5_NothingEscapes == escaped = "none"

\* C5 witness: a mapping failure after a send with an unreachable target, both
\* contained.
C5_Witness ==
    /\ completed /\ caught = "KeyError" /\ escaped = "none"
    /\ Len(sent) = 1 /\ sent[1].failed # {}

\* C6: a delivery that completes a SysEx message of fewer than 3 tokens
\* leaves the buffer empty.
C6_FramingErrorResets ==
    (completed /\ handed # <<>> /\ handed[1] = SYSEX_START /\ Len(handed) < 3)
    => msg_store = <<>>

\* A SysEx message whose payload does not have the shape its action needs.
ShapeMismatch(message) ==
    LET split == split_message(message)
    IN  /\ split.msg_data # <<>>
        /\ \/ split.action = to_padded_hex(17) /\ Len(split.msg_data) # 3
           \/ split.action = to_padded_hex(127) /\ Len(split.msg_data) < 3

\* C7: a payload shape mismatch makes the decoder yield no events: it raises
\* nothing and its result holds no event.
C7_MismatchYieldsNoEvents ==
    (routed = "SysExHandler" /\ ShapeMismatch(handed))
    => /\ caught = "none"
       /\ result.t = "list"
       /\ \A i \in 1..Len(result.items) : result.items[i] = EmptyDict

\* An event map_to_osc maps: its type has a template and it has a data field.
Mappable(event) ==
    ResultType(event) \in DOMAIN osc_path_templates /\ "data" \in DOMAIN event

Registered(event) == ResultType(event) \in DOMAIN osc_path_templates

C9_NoEmptyPlaceholderSent ==
    \A i \in 1..Len(sent) :
        \A k \in 2..Len(sent[i].path) : sent[i].path[k] # Lit("")

\* C10: events whose result_type has no template raise nothing and send
\* nothing: a list of such events leaves no exception and no send, and no list
\* gives more sends than it has events of a registered type.
C10_UnregisteredDropped ==
    (completed /\ result.t = "list")
    => /\ (\A i \in 1..Len(result.items) : ~Registered(result.items[i]))
              => (caught = "none" /\ sent = <<>>)
       /\ Len(sent) <= Cardinality({i \in 1..Len(result.items) : Registered(result.items[i])})

\* C10 witness: an event without result_type and one of an unknown type.
C10_Witness ==
    /\ completed /\ result.t = "list"
    /\ result.items = <<EmptyDict, EvMeter>>
    /\ caught = "none" /\ sent = <<>> /\ msg_store = <<>>

\* The path is a str whose first character is "/".
IsAddress(path) ==
    /\ path.t = "str"
    /\ path.segments # <<>>
    /\ path.segments[1] = Lit("")
    /\ Len(path.segments) > 1

\* The last call of send passed the path test with targets registered.
FannedOut == send_call.id > 0 /\ IsAddress(send_call.path) /\ targets # <<>>

\* The calls of client.send_message the threads of a call of send made for a target
AttemptsOf(n, id) == {i \in 1..Len(wire[n]) : wire[n][i].call = id}

\* The failures logged for a target by the threads of a call of send
FailuresOf(n, id) == {i \in 1..Len(logged[n]) : logged[n][i] = id}

\* C11: when send has returned from a fan-out, it has raised nothing, every
\* registered target has had exactly one send_message of the path and value,
\* which succeeded unless the target is unreachable, every unreachable target
\* has exactly one failure logged and no other target has any, and every
\* thread has ended.
C11_FanOutIsolatedAndJoined ==
    (send_pc = "idle" /\ FannedOut)
    => /\ osc_exc = "none"
       /\ \A n \in TargetNames :
              /\ Cardinality(AttemptsOf(n, send_call.id))
                     = (IF IsRegistered(targets, n) THEN 1 ELSE 0)
              /\ \A i \in AttemptsOf(n, send_call.id) :
                     /\ wire[n][i].ok = (n \notin send_call.down)
                     /\ wire[n][i].path = send_call.path
                     /\ wire[n][i].value = send_call.value
              /\ Cardinality(FailuresOf(n, send_call.id))
                     = (IF n \in send_call.down THEN 1 ELSE 0)
       /\ \A k \in 1..Len(threads) : threads[k].state = "done"

\* C11 witness: send has returned with one of three targets unreachable: the
\* other two have the message and one failure is logged.
C11_Witness ==
    /\ send_pc = "idle" /\ FannedOut
    /\ Len(targets) = 3
    /\ send_call.down = {"tablet"}
    /\ Delivered(send_call.id, TRUE) = {"desk", "stage"}
    /\ Cardinality(FailuresOf("tablet", send_call.id)) = 1
    /\ FailuresOf("desk", send_call.id) = {} /\ FailuresOf("stage", send_call.id) = {}

\* What a call of send that starts no thread leaves: no thread of the call,
\* no send_message of the call, send not in progress.
NothingDispatched ==
    /\ send_pc = "idle"
    /\ \A k \in 1..Len(threads) : threads[k].call # send_call.id
    /\ \A n \in TargetNames : AttemptsOf(n, send_call.id) = {}

\* C12 as stated: with no target registered, send raises nothing and performs
\* no send, whatever its path argument is.
C12_NoTargetsNeverRaises ==
    (send_call.id > 0 /\ targets = <<>>)
    => (osc_exc = "none" /\ NothingDispatched)

\* C12 amended: with no target registered, send with a str path that begins
\* with "/" raises nothing, performs no send, starts no thread and logs the
\* warning; with any other path it raises ValueError, and it performs no send.
C12_NoTargetsValidPathNoOp ==
    (send_call.id > 0 /\ targets = <<>>)
    => /\ NothingDispatched
       /\ threads = <<>>
       /\ IF IsAddress(send_call.path)
          THEN osc_exc = "none" /\ warnings # <<>> /\ warnings[Len(warnings)] = "no targets"
          ELSE osc_exc = "ValueError"

\* C12 witness: a second call of send with a good path and no target.
C12_Witness ==
    /\ send_call.id = 2 /\ targets = <<>> /\ IsAddress(send_call.path)
    /\ osc_exc = "none" /\ Len(warnings) >= 1

\* C13: a call of send whose path is no str or does not begin with "/" raises
\* ValueError, starts no thread and sends nothing.
C13_InvalidPathRaisesBeforeDispatch ==
    (send_call.id > 0 /\ ~IsAddress(send_call.path))
    => (osc_exc = "ValueError" /\ NothingDispatched)

\* C13 witness: a str path without the leading "/" refused with three targets
\* registered, after a call that was sent to all three.
C13_Witness ==
    /\ send_call.id = 2 /\ Len(targets) = 3
    /\ send_call.path = PyPath(<<Lit("qu"), Lit("console")>>)
    /\ osc_exc = "ValueError"
    /\ Len(threads) = 3 /\ Len(wire["desk"]) = 1

\* The events of the decoded message that map_to_osc has a template for
MappedEvents == SelectSeq(result.items, Registered)

\* C14: a thread that has not ended belongs to the call of send in progress,
\* so no send of a later event starts before every send of the event before
\* it has ended; each target is sent the calls in the order they were made;
\* the sends midi_callback has made are, in order, those of the events of the
\* decoded message that have a template, each ended for every target; and
\* midi_callback returns only with send returned and every thread ended.
C14_OrderedCompleteDelivery ==
    /\ \A k \in 1..Len(threads) :
           threads[k].state # "done" => (threads[k].call = send_call.id /\ send_pc # "idle")
    /\ \A n \in TargetNames : \A i, j \in 1..Len(wire[n]) :
           i < j => wire[n][i].call < wire[n][j].call
    /\ (completed /\ result.t = "list") =>
           /\ Len(sent) <= Len(MappedEvents)
           /\ \A i \in 1..Len(sent) :
                  /\ sent[i].path = Render(osc_path_templates[ResultType(MappedEvents[i])],
                                           MappedEvents[i])
                  /\ sent[i].value = MappedEvents[i].data
                  /\ sent[i].delivered \cup sent[i].failed = Range(targets)
    /\ cb_pc = "idle" =>
           (send_pc = "idle" /\ \A k \in 1..Len(threads) : threads[k].state = "done")

\* C14 witness: midi_callback has returned from a message decoded into two
\* events, each target has been sent the first and then the second, one send
\* to tablet failed, and the next chunk has been delivered.
C14_Witness ==
    /\ cb_pc = "idle" /\ Len(stream) = MaxPubTokens /\ msg_store # <<>>
    /\ \A n \in Range(targets) :
           /\ Len(wire[n]) = 2
           /\ wire[n][1].path = PyPath(Render(osc_path_templates.channel_fader, EvFader))
           /\ wire[n][2].path = PyPath(Render(osc_path_templates.console_type, EvConsole))
    /\ ~wire["tablet"][1].ok /\ wire["tablet"][2].ok

IdentityMessage(message) ==
    /\ message # <<>>
    /\ message[1] = SYSEX_START
    /\ split_message(message).action = to_padded_hex(17)
    /\ Len(split_message(message).msg_data) = 3

\* The value of a two-digit hex token, digit by digit.
TokenValue(token) ==
    LET high == CHOOSE d \in 0..15 : HexDigits[d + 1] = token[3]
        low == CHOOSE d \in 0..15 : HexDigits[d + 1] = token[4]
    IN  (high * 16) + low

\* C16: a SysEx message with action 0x11 and a payload of 3 tokens (box,
\* major, minor) is decoded without an exception into exactly two events, in
\* this order: console_type, whose data is the console type of box or
\* "Unknown", and console_fwversion, whose data is the decimal digits of
\* major, a dot, and the decimal digits of minor.  The result is a function
\* of the message alone.
C16_ConsoleInfoShape ==
    IdentityMessage(handed) =>
        LET payload == split_message(handed).msg_data
            box == payload[1]
        IN  /\ caught = "none"
            /\ routed = "SysExHandler"
            /\ result.t = "list"
            /\ Len(result.items) = 2
            /\ result.items[1] =
                   [result_type |-> PyStr("console_type"),
                    data |-> PyStr(IF box \in DOMAIN console_types
                                   THEN console_types[box] ELSE "Unknown")]
            /\ result.items[2] =
                   [result_type |-> PyStr("console_fwversion"),
                    data |-> [t |-> "str",
                              chars |-> Decimal(TokenValue(payload[2])) \o <<".">>
                                        \o Decimal(TokenValue(payload[3]))]]

\* C16 witness: box 0x01, version 0x01 0x43 behind the configured header is
\* decoded into Qu-16 and "1.67".
C16_Witness ==
    /\ handed = hexify(<<240, 0, 17, 1, 1, 67, 247>>)
    /\ result.t = "list"
    /\ result.items[1].data = PyStr("Qu-16")
    /\ result.items[2].data.chars = <<"1", ".", "6", "7">>

\* A SysEx message whose action is 0x02, with a payload.
ChannelNameMessage(message) ==
    /\ message # <<>>
    /\ message[1] = SYSEX_START
    /\ split_message(message).action = to_padded_hex(2)
    /\ split_message(message).msg_data # <<>>

\* The codes without the NULs at their end: up to the last code that is not 0.
TrimTrailingNul(codes) ==
    LET kept == {i \in 1..Len(codes) : codes[i] # 0}
        last == IF kept = {} THEN 0 ELSE CHOOSE i \in kept : \A j \in kept : j <= i
    IN  SubSeq(codes, 1, last)

\* C17: a SysEx message with action 0x02 is decoded into exactly one event,
\* a channel_name, whose data is the characters that payload[1:] codes, in
\* order, without the NULs at the end and with every other character kept.
C17_ChannelNameTrimmed ==
    (routed = "SysExHandler" /\ ChannelNameMessage(handed)) =>
        LET payload == split_message(handed).msg_data
            codes == [i \in 1..(Len(payload) - 1) |-> TokenValue(payload[i + 1])]
        IN  /\ caught = "none"
            /\ result.t = "list"
            /\ Len(result.items) = 1
            /\ result.items[1].result_type = PyStr("channel_name")
            /\ result.items[1].data = PyText(TrimTrailingNul(codes))

\* The message with its channel token replaced by one the channel map has.
\* The token is the first of the payload for a SysEx message and the third
\* of the message for an NRPN message.
ChannelIndex(message) ==
    IF message[1] = SYSEX_START
    THEN (Len(message) - 1) - Len(split_message(message).msg_data) + 1
    ELSE 3

WithKnownChannel(message) ==
    [message EXCEPT ![ChannelIndex(message)] = to_padded_hex(32)]

\* A message one of the six channel decoders is run on by its handler.
ResolvesChannel(handler, message) ==
    /\ message # <<>>
    /\ \/ /\ handler = "SysExHandler"
          /\ ChannelNameMessage(message)
       \/ /\ handler = "NRPNHandler"
          /\ Len(message) >= 6
          /\ message[6] \in {to_padded_hex(18), to_padded_hex(22), to_padded_hex(23),
                             to_padded_hex(81), to_padded_hex(87)}

\* C18: a decoder that resolves a channel, run on a message whose channel
\* token the channel map lacks, raises exactly when it raises on the same
\* message with a known channel, and otherwise yields the same event with
\* channel "Unknown": the lookup itself never fails the decode.
C18_UnknownChannelStillDecodes ==
    (/\ routed \in {"SysExHandler", "NRPNHandler"}
     /\ ResolvesChannel(routed, handed)
     /\ handed[ChannelIndex(handed)] \notin DOMAIN channel_definitions) =>
        LET known == RunHandler(routed, WithKnownChannel(handed))
        IN  /\ caught = known.exc
            /\ caught = "none" =>
                   /\ result.t = "list"
                   /\ Len(result.items) = 1
                   /\ result.items[1].channel = PyStr("Unknown")
                   /\ result.items = <<[known.val[1] EXCEPT !.channel = PyStr("Unknown")]>>

\* C18 witness: the pan decoder on an NRPN message for channel token 0x28.
C18_Witness ==
    /\ routed = "NRPNHandler"
    /\ handed = hexify(Nrpn(40, 22, 74))
    /\ caught = "none"
    /\ result.t = "list"
    /\ result.items[1].result_type = PyStr("channel_pan")
    /\ result.items[1].channel = PyStr("Unknown")
    /\ result.items[1].data = PyInt(37)

\* The delivered tokens hold a whole message at their beginning: a SysEx
\* start with an end marker after it, or a first token of table-defined
\* length L followed by at least L - 1 more.
HoldsWholeMessage(tokens) ==
    /\ tokens # <<>>
    /\ IF tokens[1] = SYSEX_START
       THEN ~NoEndMarker(tokens)
       ELSE HasTableLength(tokens) /\ Len(tokens) >= TableLength(tokens)

\* C19: once the deliveries have brought a whole message, completion has
\* been reported, wherever in its chunk the last token of the message was.
C19_CompleteWhereverMessageEnds ==
    HoldsWholeMessage(stream) => ncomplete >= 1

\* The length of the message the store begins cannot be resolved from the
\* table: the nibble of the first token is absent, the subtype is absent,
\* the entry has neither length nor subtype, or the subtype token is not there.
Unresolved(store) ==
    /\ store # <<>>
    /\ store[1] # SYSEX_START
    /\ ~HasTableLength(store)

\* C20: a delivery after whose extend the expected length cannot be resolved
\* reports no completion, constructs no MIDIProcessor, lets no exception
\* out, and leaves in msg_store every token the extend left there.
C20_UnresolvedLengthRetains ==
    [][LET delivered == DropFirst(stream', Len(stream))
           extended == DequeExtend(msg_store, delivered, MsgStoreMaxLen)
       IN  (delivered # <<>> /\ Unresolved(extended))
           => /\ msg_store' = extended
              /\ ~completed'
              /\ ncomplete' = ncomplete
              /\ handed' = <<>>
              /\ routed' = "none"
              /\ escaped' = "none"]_vars

\* C20 witness: the first token 0x07 has a nibble the table lacks; the
\* KeyError was caught and four tokens from more than one delivery are kept.
C20_Witness ==
    /\ Len(msg_store) = 4 /\ msg_store = stream
    /\ msg_store[1] = to_padded_hex(7)
    /\ Unresolved(msg_store)
    /\ caught = "KeyError" /\ escaped = "none" /\ ~completed /\ handed = <<>>

\* The store begins a message whose table entry is a nested mapping.
NestedEntry(store) ==
    /\ store # <<>>
    /\ store[1] # SYSEX_START
    /\ store[1][3] \in DOMAIN message_types
    /\ "subtype" \in DOMAIN message_types[store[1][3]]

\* C21: for a buffered message whose table entry is a nested mapping, with
\* only the first token buffered the delivery reported incompletion and no
\* exception was raised; with a second token whose low byte is a subtype of
\* the entry, completion was reported exactly when the buffer length equals
\* that subtype's value.
C21_NestedLengthBySecondToken ==
    NestedEntry(msg_store) =>
        LET subtype == message_types[msg_store[1][3]].subtype
        IN  IF Len(msg_store) = 1
            THEN ~completed /\ caught = "none"
            ELSE <<msg_store[2][3], msg_store[2][4]>> \in DOMAIN subtype
                    => (completed <=> Len(msg_store) = subtype[<<msg_store[2][3], msg_store[2][4]>>])

\* The last n items of a sequence, or all of it when it has fewer
LastOf(seq, n) ==
    IF Len(seq) <= n THEN seq ELSE SubSeq(seq, Len(seq) - n + 1, Len(seq))

\* C22: msg_store never holds more than its capacity, and while nothing has
\* cleared it, it holds the most recent tokens received, at most capacity of
\* them, in the order they arrived.
C22_BufferIsMostRecentTokens ==
    /\ Len(msg_store) <= MsgStoreMaxLen
    /\ ncomplete = 0 => msg_store = LastOf(stream, MsgStoreMaxLen)

\* The action bytes and the parameter ids the handlers have a decoder for.
KnownActions ==
    {to_padded_hex(2), to_padded_hex(17), to_padded_hex(19), to_padded_hex(20), to_padded_hex(127)}

KnownParameters ==
    {to_padded_hex(18), to_padded_hex(22), to_padded_hex(23), to_padded_hex(81), to_padded_hex(87)}

\* The no-event cases: a SysEx message of fewer than 3 tokens, one with
\* nothing between header and end marker, one with an unrecognized action,
\* and a parameter message with an unrecognized parameter id.
NoEventCase(handler, message) ==
    /\ message # <<>>
    /\ \/ /\ handler = "SysExHandler"
          /\ message[1] = SYSEX_START
          /\ \/ Len(message) < 3
             \/ split_message(message).action = <<>>
             \/ split_message(message).action \notin KnownActions
       \/ /\ handler = "NRPNHandler"
          /\ message[1][3] = "b"
          /\ Len(message) >= 6
          /\ message[6] \notin KnownParameters

\* C23: in each no-event case the handler raises nothing and its result is a
\* list of length 0.
C23_NoEventCasesYieldEmptyList ==
    NoEventCase(routed, handed) =>
        /\ caught = "none"
        /\ result.t = "list"
        /\ Len(result.items) = 0

\* C24: a SysEx message whose token after the header (or after the start
\* marker when it has no header) is 0x14 is decoded into exactly one event,
\* {result_type: function, function: end-of-sync, data: None}, with or
\* without payload tokens after the action.
C24_EndOfSyncAlwaysOneEvent ==
    (/\ routed = "SysExHandler"
     /\ handed # <<>>
     /\ handed[1] = SYSEX_START
     /\ split_message(handed).action = to_padded_hex(20)) =>
        /\ caught = "none"
        /\ result = PyEventList(<< [result_type |-> PyStr("function"),
                                    function |-> PyStr("end-of-sync"),
                                    data |-> PyNone] >>)

\* C25: a parameter message with parameter id 0x16 and a value token at
\* index 8 is decoded into exactly one channel_pan event whose data is the
\* value of that token minus 37 and whose channel is the channel map's entry
\* for the token at index 2, "Unknown" when it has none.
C25_PanOffsetLaw ==
    (/\ routed = "NRPNHandler"
     /\ Len(handed) >= 9
     /\ handed[6] = to_padded_hex(22)) =>
        /\ caught = "none"
        /\ result = PyEventList(<< [result_type |-> PyStr("channel_pan"),
                                    channel |-> PyStr(IF handed[3] \in DOMAIN channel_definitions
                                                      THEN channel_definitions[handed[3]]
                                                      ELSE "Unknown"),
                                    data |-> PyInt(TokenValue(handed[9]) - 37)] >>)

\* C25 witness: raw value 0 on channel token 0x20 is decoded to -37.
C25_Witness ==
    /\ routed = "NRPNHandler"
    /\ handed = hexify(Nrpn(32, 22, 0))
    /\ result.t = "list"
    /\ result.items[1].data = PyInt(0 - 37)
    /\ result.items[1].channel = PyStr("1")

\* C26: a complete message whose first token is neither 0xf0 nor of the
\* Control-Change class is ignored in silence: no handler runs, nothing is
\* sent to a target, no exception is logged and the buffer is cleared.
C26_OtherClassesSilentlyIgnored ==
    (/\ completed
     /\ handed # <<>>
     /\ handed[1] # SYSEX_START
     /\ handed[1][3] # "b") =>
        /\ routed = "none"
        /\ sent = <<>>
        /\ caught = "none"
        /\ escaped = "none"
        /\ msg_store = <<>>

\* target_options that name a str address and an int port
ValidOptions(target_options) ==
    /\ "address" \in DOMAIN target_options /\ target_options["address"].t = "str"
    /\ "port" \in DOMAIN target_options /\ target_options["port"].t = "int"

\* C27: every call add_target(name, options) with a str address and an int
\* port raises nothing, makes the entry of name the client of that address
\* and port, leaves every other entry as it was and the order of the names
\* too, warns exactly when name had an entry, and leaves as many entries as
\* there are distinct names registered; with other options it raises
\* ValueError, warns nothing and leaves the registry as it was.
C27_RegistrationKeyedByName ==
    [][ add_call'.id = add_call.id + 1 =>
          LET name == add_call'.name
              target_options == add_call'.options
          IN  IF ValidOptions(target_options)
              THEN /\ osc_exc' = "none"
                   /\ DOMAIN clients' = DOMAIN clients \cup {name}
                   /\ clients'[name] = [address |-> target_options["address"],
                                        port |-> target_options["port"]]
                   /\ \A n \in DOMAIN clients \ {name} : clients'[n] = clients[n]
                   /\ Len(targets') = Cardinality(DOMAIN clients \cup {name})
                   /\ {targets'[i] : i \in 1..Len(targets')} = DOMAIN clients'
                   /\ SubSeq(targets', 1, Len(targets)) = targets
                   /\ warnings' = IF name \in DOMAIN clients
                                  THEN Append(warnings, "overwriting")
                                  ELSE warnings
              ELSE /\ osc_exc' = "ValueError"
                   /\ clients' = clients
                   /\ targets' = targets
                   /\ warnings' = warnings ]_vars

\* C27 witness: "desk" registered again with another address and port while
\* "tablet" is registered: two entries, one warning, the new client for "desk".
C27_Witness ==
    /\ add_call.id = 3 /\ add_call.name = "desk" /\ ValidOptions(add_call.options)
    /\ targets = <<"desk", "tablet">>
    /\ warnings = <<"overwriting">>
    /\ clients["desk"] = [address |-> PyStr("backup"), port |-> PyInt(2)]
    /\ clients["tablet"] = [address |-> PyStr("host"), port |-> PyInt(1)]

\* C28: whatever event map_to_osc is called with, send does not refuse the
\* address (no ValueError), and every address that reached send begins with
\* "/": its text before the first separator is empty.
C28_MappedAddressesBeginWithRoot ==
    /\ caught # "ValueError"
    /\ \A i \in 1..Len(sent) :
          /\ Len(sent[i].path) >= 2
          /\ sent[i].path[1] = [lit |-> ""]

\* C28 witness: an mmc_action event whose action holds a text with "/" was
\* sent to the address rendered from its template.
C28_Witness ==
    /\ result = PyEventList(<< ("result_type" :> PyStr("mmc_action")) @@
                               ("action" :> PyStr("a/b")) @@ ("data" :> PyInt(0)) >>)
    /\ caught = "none"
    /\ Len(sent) = 1
    /\ sent[1].path = <<[lit |-> ""], [lit |-> "qu"], [lit |-> "mmc"], [str_of |-> PyStr("a/b")]>>

====
